---- MODULE Spec2Model ----
(***************************************************************************)
(* The Gemini proxy serverless function.                                   *)
(*                                                                         *)
(* One invocation of the Netlify function `gemini-proxy` is modelled as a  *)
(* state machine: the handler runs synchronously up to its outbound fetch, *)
(* is suspended while the provider answers, and resumes to build its       *)
(* response.  Two revisions of the handler are modelled:                   *)
(*   - src/unnamed/part_003 (the canonical, documented revision);          *)
(*   - src/netlify/functions/gemini-proxy.js (its second, effective        *)
(*     `exports.handler`).                                                 *)
(*                                                                         *)
(* JavaScript values are tagged records; a JavaScript string is a sequence *)
(* of chunks (single characters, or whole literal texts of the source).    *)
(***************************************************************************)
EXTENDS Integers, Sequences, FiniteSets

\* ------------------------------------------------------------------ bounds
\* Longest caller-supplied string (prompt, instruction), in characters.
MaxStrLen == 2
\* Most text parts in one candidate of a provider response.
MaxParts == 2
\* Most candidates in one provider response.
MaxCands == 2

\* ------------------------------------------------------- JavaScript values
Undef == [t |-> "undefined"]
Null == [t |-> "null"]
Str(s) == [t |-> "string", s |-> s]
Num(n) == [t |-> "number", n |-> n]
Bool(b) == [t |-> "boolean", b |-> b]
Arr(a) == [t |-> "array", a |-> a]
Obj(o) == [t |-> "object", o |-> o]
\* A string holding the JSON serialisation of the value v.
JsonText(v) == [t |-> "string", j |-> v]

EmptyStr == Str(<<>>)
Lit(text) == Str(<<text>>)

IsString(v) == v.t = "string"
IsNullish(v) == v.t \in {"undefined", "null"}
IsArray(v) == v.t = "array"
IsJsonText(v) == v.t = "string" /\ "j" \in DOMAIN v

\* ToBoolean: the values `!x`, `x || y` and `if (x)` treat as true.
Truthy(v) ==
  CASE v.t = "undefined" -> FALSE
    [] v.t = "null" -> FALSE
    [] v.t = "boolean" -> v.b
    [] v.t = "number" -> v.n # 0
    [] v.t = "string" -> IF IsJsonText(v) THEN TRUE ELSE v.s # <<>>
    [] OTHER -> TRUE

\* a || b
Or(a, b) == IF Truthy(a) THEN a ELSE b
\* a ?? b
Coalesce(a, b) == IF IsNullish(a) THEN b ELSE a

\* v.k for a v that is neither null nor undefined (those throw a TypeError,
\* which the callers model where it can happen).
Get(v, k) == IF v.t = "object" /\ k \in DOMAIN v.o THEN v.o[k] ELSE Undef

\* The keys JSON.stringify writes: a key whose value is undefined is omitted.
DropUndefined(o) == [k \in {x \in DOMAIN o : o[x].t # "undefined"} |-> o[k]]

\* JSON.stringify(payload) of an object payload.
JSONstringify(o) == JsonText(Obj(DropUndefined(o)))

\* ---------------------------------------------------------------- strings
WhiteSpace == {" ", "\t", "\n"}

RECURSIVE TrimStart(_)
TrimStart(s) ==
  IF s = <<>> THEN s
  ELSE IF Head(s) \in WhiteSpace THEN TrimStart(Tail(s)) ELSE s

RECURSIVE TrimEnd(_)
TrimEnd(s) ==
  IF s = <<>> THEN s
  ELSE IF s[Len(s)] \in WhiteSpace THEN TrimEnd(SubSeq(s, 1, Len(s) - 1)) ELSE s

\* String.prototype.trim
Trim(s) == TrimEnd(TrimStart(s))

\* Array.prototype.join over a sequence of strings.
RECURSIVE Join(_, _)
Join(strs, sep) ==
  IF strs = <<>> THEN <<>>
  ELSE IF Len(strs) = 1 THEN strs[1]
  ELSE strs[1] \o sep \o Join(Tail(strs), sep)

StringsOver(chars, n) == UNION {[1..k -> chars] : k \in 0..n}

Digits == <<"0", "1", "2", "3", "4", "5", "6", "7", "8", "9">>

\* String(v) for the values a model name can take.
JsString(v) ==
  CASE v.t = "string" -> v.s
    [] v.t = "number" -> <<Digits[v.n + 1]>>
    [] v.t = "boolean" -> IF v.b THEN <<"true">> ELSE <<"false">>
    [] OTHER -> <<"[object Object]">>

EncodeChunk(c) ==
  CASE c = " " -> "%20"
    [] c = "/" -> "%2F"
    [] c = "[object Object]" -> "%5Bobject%20Object%5D"
    [] OTHER -> c

\* encodeURIComponent(v)
encodeURIComponent(v) == LET s == JsString(v) IN [i \in 1..Len(s) |-> EncodeChunk(s[i])]

\* ------------------------------------------------ part_003: small helpers
\* The object literal `{}`.
EmptyObject == Obj([k \in {} |-> Undef])

CORS_HEADERS ==
  [AccessControlAllowOrigin |-> "*",
   AccessControlAllowHeaders |-> "Content-Type, Authorization",
   AccessControlAllowMethods |-> "GET, POST, OPTIONS"]

JsonHeaders ==
  [AccessControlAllowOrigin |-> "*",
   AccessControlAllowHeaders |-> "Content-Type, Authorization",
   AccessControlAllowMethods |-> "GET, POST, OPTIONS",
   ContentType |-> "application/json; charset=utf-8",
   CacheControl |-> "no-store"]

jsonResponse(statusCode, payload) ==
  [statusCode |-> statusCode, headers |-> JsonHeaders, body |-> JSONstringify(payload)]

isPlainObject(value) == Truthy(value) /\ value.t = "object"

\* The normaliser with the trim left out.
normalizeSystemInstructionUntrimmed(value) ==
  IF IsNullish(value) THEN Null
  ELSE IF IsString(value)
    THEN IF value.s = <<>> THEN Null
         ELSE Obj([parts |-> Arr(<<Obj([text |-> Str(value.s)])>>)])
    ELSE value

normalizeSystemInstruction(value) ==
  IF IsNullish(value) THEN Null
  ELSE IF IsString(value)
    THEN LET trimmed == Trim(value.s) IN
         IF trimmed = <<>> THEN Null
         ELSE Obj([parts |-> Arr(<<Obj([text |-> Str(trimmed)])>>)])
    ELSE IF isPlainObject(value) /\ IsArray(Get(value, "parts")) THEN value
    ELSE value

\* v?.k
OptGet(v, k) == IF IsNullish(v) THEN Undef ELSE Get(v, k)
\* v?.[0]
OptFirst(v) ==
  IF IsNullish(v) THEN Undef
  ELSE IF IsArray(v) /\ Len(v.a) >= 1 THEN v.a[1]
  ELSE Undef

\* (p) => (p && typeof p.text === "string" ? p.text : "")
PartText(p) ==
  IF Truthy(p) /\ IsString(Get(p, "text")) THEN Get(p, "text").s ELSE <<>>

NonEmpty(s) == s # <<>>

extractTextFromGeminiResponse(data) ==
  LET parts == OptGet(OptGet(OptFirst(OptGet(data, "candidates")), "content"), "parts") IN
  IF ~IsArray(parts) THEN EmptyStr
  ELSE Str(Join(SelectSeq([i \in 1..Len(parts.a) |-> PartText(parts.a[i])], NonEmpty), <<>>))

\* --------------------------------------------- part_003: the handler's steps
Return(response) == [kind |-> "return", response |-> response]
Fetch(request) == [kind |-> "fetch", request |-> request]

PreflightResponse == [statusCode |-> 204, headers |-> CORS_HEADERS, body |-> EmptyStr]

\* The key resolution ending in a placeholder key instead of "".
ResolveApiKeyWithFallback(env) ==
  Or(env.GEMINI_API_KEY, Or(env.GOOGLE_API_KEY, Or(env.NETLIFY_AT_GATEWAY_KEY, Lit("undefined"))))

ResolveApiKey(env) ==
  Or(env.GEMINI_API_KEY, Or(env.GOOGLE_API_KEY, Or(env.NETLIFY_AT_GATEWAY_KEY, EmptyStr)))

MissingKeyResponse ==
  jsonResponse(500,
    [ok |-> Bool(FALSE),
     error |-> Lit("Missing API key. Set GEMINI_API_KEY (or GOOGLE_API_KEY) in Netlify environment variables.")])

\* No catch: the platform answers the escaped exception with its error page.
CatchAllErrorPage(message) ==
  [statusCode |-> 502, headers |-> CORS_HEADERS, body |-> Lit("<html>error decoding lambda response</html>")]

\* The `catch (err)` of the handler.
CatchAll(message) ==
  jsonResponse(500,
    [ok |-> Bool(FALSE),
     error |-> Lit("Unexpected server error in gemini-proxy."),
     message |-> Lit(message)])

\* The body parsing of the earlier revisions, which ignore a SyntaxError.
ParseBodyIgnoringErrors(event) ==
  IF event.httpMethod = "POST" /\ Truthy(event.body) /\ IsJsonText(event.body)
    THEN [threw |-> FALSE, value |-> event.body.j]
    ELSE [threw |-> FALSE, value |-> EmptyObject]

\* let body = {}; if POST and event.body: JSON.parse, its SyntaxError caught.
ParseBody(event) ==
  IF event.httpMethod = "POST" /\ Truthy(event.body)
    THEN IF IsJsonText(event.body)
           THEN [threw |-> FALSE, value |-> event.body.j]
           ELSE [threw |-> TRUE, value |-> Undef]
    ELSE [threw |-> FALSE, value |-> EmptyObject]

InvalidJsonResponse ==
  jsonResponse(400, [ok |-> Bool(FALSE), error |-> Lit("Invalid JSON body.")])

DefaultModel == Lit("gemini-2.5-flash")

\* The model resolution with the query parameter left out.
ResolveModelIgnoringQuery(body, qs, env) ==
  Or(Get(body, "model"), Or(env.GEMINI_MODEL, DefaultModel))

ResolveModel(body, qs, env) ==
  Or(Get(body, "model"), Or(Get(qs, "model"), Or(env.GEMINI_MODEL, DefaultModel)))

StringOrEmpty(v) == IF IsString(v) THEN v ELSE EmptyStr

ResolveUserPrompt(body, qs) ==
  Or(StringOrEmpty(Get(body, "userPrompt")),
     Or(StringOrEmpty(Get(body, "prompt")),
        Or(StringOrEmpty(Get(qs, "userPrompt")), StringOrEmpty(Get(qs, "prompt")))))

MissingPromptResponse ==
  jsonResponse(400, [ok |-> Bool(FALSE), error |-> Lit("Missing userPrompt.")])

\* The prompt taken as it comes, without the trim.
TrimmedPromptUntrimmed(userPrompt) == Or(userPrompt, EmptyStr).s

\* const trimmed = (userPrompt || "").trim()
TrimmedPrompt(userPrompt) == Trim(Or(userPrompt, EmptyStr).s)

\* contents = [{ parts: [{ text: trimmed }] }]
BuildContents(trimmed) ==
  Arr(<<Obj([parts |-> Arr(<<Obj([text |-> Str(trimmed)])>>)])>>)

ResolveSysRaw(body, qs) ==
  Coalesce(Get(body, "systemInstruction"),
    Coalesce(Get(body, "system_instruction"),
      Coalesce(Get(body, "instruction"),
        Coalesce(Get(qs, "systemInstruction"),
          Coalesce(Get(qs, "system_instruction"),
            Coalesce(Get(qs, "instruction"), Null))))))

BuildPayload(contents, system_instruction, generationConfig, safetySettings) ==
  [contents |-> contents,
   system_instruction |-> IF Truthy(system_instruction) THEN system_instruction ELSE Undef,
   generationConfig |-> IF Truthy(generationConfig) THEN generationConfig ELSE Undef,
   safetySettings |-> IF Truthy(safetySettings) THEN safetySettings ELSE Undef]

\* The template literal of lines 185-187, its fixed text cut after the host.
DefaultEndpoint(model) ==
  Str(<<"https://generativelanguage.googleapis.com", "/v1beta/models/">>
      \o encodeURIComponent(model) \o <<":generateContent">>)

ResolveBaseUrl(env, model) == Or(env.GEMINI_BASE_URL, DefaultEndpoint(model))

BuildRequest(url, apiKey, payload) ==
  [url |-> url, method |-> "POST", apiKey |-> apiKey, body |-> JSONstringify(payload)]

\* Lines 78-196: from the invocation to the outbound call, or to an early return.
HandlerSync(event, env) ==
  IF event.httpMethod = "OPTIONS" THEN Return(PreflightResponse)
  ELSE
  LET apiKey == ResolveApiKey(env) IN
  IF ~Truthy(apiKey) THEN Return(MissingKeyResponse)
  ELSE
  LET qs == Or(event.queryStringParameters, EmptyObject)
      parsed == ParseBody(event)
  IN
  IF parsed.threw THEN Return(InvalidJsonResponse)
  ELSE
  LET body == parsed.value IN
  \* `body.model` on a null body throws a TypeError, caught by the catch-all.
  IF IsNullish(body) THEN Return(CatchAll("TypeError"))
  ELSE
  LET model == ResolveModel(body, qs, env)
      userPrompt == ResolveUserPrompt(body, qs)
      supplied == Get(body, "contents")
      trimmed == TrimmedPrompt(userPrompt)
  IN
  IF ~Truthy(supplied) /\ trimmed = <<>> THEN Return(MissingPromptResponse)
  ELSE
  LET contents == IF Truthy(supplied) THEN supplied ELSE BuildContents(trimmed)
      system_instruction == normalizeSystemInstruction(ResolveSysRaw(body, qs))
      generationConfig == Or(Get(body, "generationConfig"), Or(Get(body, "generation_config"), Undef))
      safetySettings == Or(Get(body, "safetySettings"), Or(Get(body, "safety_settings"), Undef))
      payload == BuildPayload(contents, system_instruction, generationConfig, safetySettings)
  IN Fetch(BuildRequest(ResolveBaseUrl(env, model), apiKey, payload))

\* Lines 199-205: JSON.parse(raw), or { raw } when it throws.
ParseUpstream(raw) == IF IsJsonText(raw) THEN raw.j ELSE Obj([raw |-> raw])

ResponseOk(status) == status \in 200..299

\* The upstream failure answered with a generic 500.
UpstreamFailureCollapsed(status, data) ==
  jsonResponse(500,
    [ok |-> Bool(FALSE),
     error |-> Lit("Gemini API request failed."),
     status |-> Num(status),
     data |-> data])

UpstreamFailure(status, data) ==
  jsonResponse(status,
    [ok |-> Bool(FALSE),
     error |-> Lit("Gemini API request failed."),
     status |-> Num(status),
     data |-> data])

OrNull(text) == Or(text, Null)

\* The success response whose `result` keeps the empty string.
SuccessResponseRawResult(text, data) ==
  jsonResponse(200,
    [ok |-> Bool(TRUE),
     text |-> OrNull(text),
     result |-> text,
     candidates |-> Get(data, "candidates"),
     usageMetadata |-> Get(data, "usageMetadata"),
     promptFeedback |-> Get(data, "promptFeedback"),
     modelVersion |-> Get(data, "modelVersion"),
     data |-> data])

SuccessResponse(text, data) ==
  jsonResponse(200,
    [ok |-> Bool(TRUE),
     text |-> OrNull(text),
     result |-> OrNull(text),
     candidates |-> Get(data, "candidates"),
     usageMetadata |-> Get(data, "usageMetadata"),
     promptFeedback |-> Get(data, "promptFeedback"),
     modelVersion |-> Get(data, "modelVersion"),
     data |-> data])

\* Lines 199-232: from the provider's body text to the response.
HandlerResume(status, raw) ==
  LET data == ParseUpstream(raw) IN
  IF ~ResponseOk(status) THEN UpstreamFailure(status, data)
  ELSE
  LET text == extractTextFromGeminiResponse(data) IN
  \* `data.candidates` on a null body throws a TypeError, caught by the catch-all.
  IF IsNullish(data) THEN CatchAll("TypeError")
  ELSE SuccessResponse(text, data)

\* ------------------------------ netlify/functions/gemini-proxy.js (effective)
ProxyCorsHeaders ==
  [AccessControlAllowOrigin |-> "*",
   AccessControlAllowHeaders |-> "Content-Type",
   AccessControlAllowMethods |-> "GET, POST, OPTIONS",
   CacheControl |-> "no-store"]

ProxyJsonHeaders ==
  [AccessControlAllowOrigin |-> "*",
   AccessControlAllowHeaders |-> "Content-Type",
   AccessControlAllowMethods |-> "GET, POST, OPTIONS",
   CacheControl |-> "no-store",
   ContentType |-> "application/json"]

ProxyPreflightResponse ==
  [statusCode |-> 200,
   headers |-> [AccessControlAllowOrigin |-> "*",
                AccessControlAllowMethods |-> "GET, POST, OPTIONS",
                AccessControlAllowHeaders |-> "Content-Type"],
   body |-> EmptyStr]

ProxyResponse(statusCode, payload) ==
  [statusCode |-> statusCode, headers |-> ProxyCorsHeaders, body |-> JSONstringify(payload)]

\* The `catch (error)` of the handler.
ProxyCatch(message) == ProxyResponse(500, [ok |-> Bool(FALSE), error |-> Lit(message)])

ProxyResolveApiKey(env) == Or(env.GEMINI_API_KEY, env.NETLIFY_AT_GATEWAY_KEY)

\* Lines 68-83: what the GET and POST branches read.  `threw` is the
\* SyntaxError of JSON.parse or the TypeError of reading a field of null.
ProxyReadInputs(event) ==
  IF event.httpMethod = "GET"
    THEN LET params == Or(event.queryStringParameters, EmptyObject) IN
         [threw |-> FALSE,
          userPrompt |-> Or(Get(params, "userPrompt"), Or(Get(params, "prompt"), EmptyStr)),
          systemInstruction |->
            Or(Get(params, "systemInstruction"), Or(Get(params, "system_instruction"), EmptyStr)),
          contents |-> Null,
          generationConfig |-> Null]
  ELSE IF event.httpMethod = "POST"
    THEN LET text == Or(event.body, JsonText(EmptyObject)) IN
         IF ~IsJsonText(text) \/ IsNullish(text.j)
           THEN [threw |-> TRUE, userPrompt |-> EmptyStr, systemInstruction |-> EmptyStr,
                 contents |-> Null, generationConfig |-> Null]
           ELSE LET body == text.j IN
                [threw |-> FALSE,
                 userPrompt |-> Or(Get(body, "userPrompt"), Or(Get(body, "prompt"), EmptyStr)),
                 systemInstruction |->
                   Or(Get(body, "systemInstruction"), Or(Get(body, "system_instruction"), EmptyStr)),
                 contents |-> Or(Get(body, "contents"), Null),
                 generationConfig |->
                   Or(Get(body, "generationConfig"), Or(Get(body, "generation_config"), Null))]
  ELSE [threw |-> FALSE, userPrompt |-> EmptyStr, systemInstruction |-> EmptyStr,
        contents |-> Null, generationConfig |-> Null]

ProxyMessages(systemInstruction, userPrompt) ==
  (IF Truthy(systemInstruction)
     THEN <<Obj([role |-> Lit("system"), parts |-> Arr(<<Obj([text |-> systemInstruction])>>)])>>
     ELSE <<>>)
  \o <<Obj([role |-> Lit("user"), parts |-> Arr(<<Obj([text |-> userPrompt])>>)])>>

ProxyRequestBody(contents, generationConfig) ==
  [contents |-> contents,
   generationConfig |-> IF Truthy(generationConfig) THEN generationConfig ELSE Undef]

ProxyEndpoint(env) ==
  Str(<<"https://generativelanguage.googleapis.com/v1beta/models/">>
      \o JsString(Or(env.GEMINI_MODEL, Lit("gemini-pro"))) \o <<":generateContent">>)

\* Lines 67-129: from the invocation to the outbound call, or to an early return.
ProxyHandlerSync(event, env) ==
  IF event.httpMethod = "OPTIONS" THEN Return(ProxyPreflightResponse)
  ELSE
  LET in == ProxyReadInputs(event) IN
  IF in.threw THEN Return(ProxyCatch("SyntaxError or TypeError"))
  ELSE
  LET apiKey == ProxyResolveApiKey(env) IN
  IF ~Truthy(apiKey)
    THEN Return(ProxyResponse(500, [ok |-> Bool(FALSE), error |-> Lit("Missing API key")]))
  ELSE IF Truthy(in.contents) /\ IsArray(in.contents)
    THEN Fetch(BuildRequest(ProxyEndpoint(env), apiKey,
                            ProxyRequestBody(in.contents, in.generationConfig)))
  ELSE IF ~Truthy(in.userPrompt)
    THEN Return(ProxyResponse(400, [ok |-> Bool(FALSE), error |-> Lit("Missing user prompt")]))
  ELSE Fetch(BuildRequest(ProxyEndpoint(env), apiKey,
               ProxyRequestBody(Arr(ProxyMessages(in.systemInstruction, in.userPrompt)),
                                in.generationConfig)))

\* One candidate in the forEach of lines 143-148: its combined text is pushed,
\* it is skipped, or reading it throws a TypeError.
ProxyCandidateOutcome(candidate) ==
  IF IsNullish(candidate) THEN "throw"
  ELSE LET content == Get(candidate, "content") IN
       IF ~Truthy(content) \/ ~IsArray(Get(content, "parts")) THEN "skip"
       ELSE IF \E i \in 1..Len(Get(content, "parts").a) : IsNullish(Get(content, "parts").a[i])
         THEN "throw"
       ELSE "push"

\* candidate.content.parts.map((p) => p.text || '').join('')
ProxyCombined(candidate) ==
  LET parts == Get(Get(candidate, "content"), "parts").a IN
  Join([i \in 1..Len(parts) |-> JsString(Or(Get(parts[i], "text"), EmptyStr))], <<>>)

Pushed(candidate) == ProxyCandidateOutcome(candidate) = "push"

ProxyTexts(data) ==
  LET candidates == Get(data, "candidates") IN
  IF Truthy(candidates) /\ IsArray(candidates)
    THEN LET pushed == SelectSeq(candidates.a, Pushed) IN
         [i \in 1..Len(pushed) |-> ProxyCombined(pushed[i])]
    ELSE <<>>

ProxyExtractionThrows(data) ==
  LET candidates == Get(data, "candidates") IN
  /\ Truthy(candidates)
  /\ IsArray(candidates)
  /\ \E i \in 1..Len(candidates.a) : ProxyCandidateOutcome(candidates.a[i]) = "throw"

\* texts.join('\n\n')
ProxyExtractText(data) == Str(Join(ProxyTexts(data), <<"\n", "\n">>))

ProxySuccessResponse(text, data) ==
  [statusCode |-> 200,
   headers |-> ProxyJsonHeaders,
   body |-> JSONstringify(
     [ok |-> Bool(TRUE),
      text |-> text,
      candidates |-> Get(data, "candidates"),
      promptFeedback |-> Get(data, "promptFeedback"),
      usageMetadata |-> Get(data, "usageMetadata"),
      data |-> data])]

\* Lines 131-166: from the provider's parsed body to the response.
ProxyHandlerResume(status, geminiData) ==
  \* `geminiData.error` and `geminiData.candidates` throw on a null body.
  IF IsNullish(geminiData) THEN ProxyCatch("TypeError")
  ELSE IF ~ResponseOk(status)
    THEN ProxyResponse(status,
           [ok |-> Bool(FALSE),
            error |-> Or(OptGet(Get(geminiData, "error"), "message"), Lit("API request failed")),
            data |-> geminiData])
  ELSE IF ProxyExtractionThrows(geminiData) THEN ProxyCatch("TypeError")
  ELSE ProxySuccessResponse(ProxyExtractText(geminiData), geminiData)

\* ------------------------------------------------------------ the inputs
BlankBody ==
  [model |-> Undef, userPrompt |-> Undef, prompt |-> Undef, contents |-> Undef,
   systemInstruction |-> Undef, system_instruction |-> Undef, instruction |-> Undef,
   generationConfig |-> Undef, generation_config |-> Undef,
   safetySettings |-> Undef, safety_settings |-> Undef]

BlankQs ==
  [model |-> Undef, userPrompt |-> Undef, prompt |-> Undef,
   systemInstruction |-> Undef, system_instruction |-> Undef, instruction |-> Undef]

BlankEnv ==
  [GEMINI_API_KEY |-> Undef, GOOGLE_API_KEY |-> Undef, NETLIFY_AT_GATEWAY_KEY |-> Undef,
   GEMINI_MODEL |-> Undef, GEMINI_BASE_URL |-> Undef]

KeyEnv == [BlankEnv EXCEPT !.GEMINI_API_KEY = Lit("key-1")]

PromptStrings == {Str(s) : s \in StringsOver({" ", "a"}, MaxStrLen)}
InstrStrings == {Str(s) : s \in StringsOver({" ", "s"}, MaxStrLen)}

\* A conversation turn a caller supplies in `contents`.
CallerTurn == Obj([role |-> Lit("user"), parts |-> Arr(<<Obj([text |-> Lit("c")])>>)])

ContentsValues ==
  {Undef, Null, Arr(<<>>), Arr(<<CallerTurn>>), Lit("c"), EmptyStr, Num(0), Num(1), CallerTurn}

StructuredInstruction == Obj([parts |-> Arr(<<Obj([text |-> Lit("structured")])>>)])
OtherShapeInstruction == Obj([role |-> Lit("system")])

\* Bodies that are not a JSON object, or no JSON at all.
OddBodies ==
  {Null, EmptyStr, Lit("{oops"), Str(<<" ">>), JsonText(Null), JsonText(Num(1)),
   JsonText(Lit("a")), JsonText(Arr(<<>>)), JsonText(Bool(FALSE))}

PartA == Obj([text |-> Lit("A")])
PartB == Obj([text |-> Lit("B")])

Candidate(parts) == Obj([content |-> Obj([parts |-> Arr(parts)])])

SeqsUpTo(S, n) == UNION {[1..k -> S] : k \in 0..n}

WellFormedCandidates == {Candidate(ps) : ps \in SeqsUpTo({PartA, PartB}, MaxParts)}

MalformedCandidates ==
  {Null,
   Obj([content |-> Undef]),
   Obj([content |-> Obj([parts |-> Undef])]),
   Obj([content |-> Obj([parts |-> Lit("A")])]),
   Candidate(<<Null, PartA>>),
   Candidate(<<Obj([text |-> Undef]), PartB>>),
   Candidate(<<Obj([text |-> Num(7)]), PartA>>),
   Candidate(<<Obj([text |-> EmptyStr]), PartA>>)}

CandidatesValues ==
  {Undef, Null, Lit("A"), Num(0)}
    \cup {Arr(cs) : cs \in SeqsUpTo(WellFormedCandidates, MaxCands)}
    \cup {Arr(cs) : cs \in SeqsUpTo(MalformedCandidates \cup {Candidate(<<PartA>>)}, MaxCands)}

DataObject(candidates, usage, err) ==
  Obj([candidates |-> candidates, usageMetadata |-> usage, promptFeedback |-> Undef,
       modelVersion |-> IF usage.t = "undefined" THEN Undef ELSE Lit("gemini-2.5-flash-001"),
       error |-> err])

UsageValues == {Undef, Obj([totalTokenCount |-> Num(3)])}

\* What JSON.parse of a provider body can give.
DataValues ==
  {Null, Num(1), Lit("x"), Arr(<<>>), Bool(TRUE)}
    \cup {DataObject(c, u, Undef) : c \in CandidatesValues, u \in UsageValues}
    \cup {DataObject(Undef, Undef, Obj([message |-> Lit("quota")]))}

RawBodies == {EmptyStr, Lit("<html>")} \cup {JsonText(d) : d \in DataValues}

\* The provider's behaviour during one invocation: whether fetch resolves,
\* with which status, and whether reading the body text resolves, with what.
Provider(fetch, status, text, raw) ==
  [fetch |-> fetch, status |-> status, text |-> text, raw |-> raw]

OneCandidateBody == JsonText(DataObject(Arr(<<Candidate(<<PartA>>)>>), Undef, Undef))

Statuses == {200, 201, 204, 299, 300, 400, 404, 429, 500, 503}

AllProviders ==
  {Provider("reject", 0, "reject", EmptyStr)}
    \cup {Provider("resolve", st, "reject", EmptyStr) : st \in {200, 500}}
    \cup {Provider("resolve", st, "resolve", raw) : st \in {200, 404}, raw \in RawBodies}
    \cup {Provider("resolve", st, "resolve", raw) : st \in Statuses,
            raw \in {EmptyStr, Lit("<html>"), JsonText(Null), OneCandidateBody,
                     JsonText(DataObject(Undef, Undef, Obj([message |-> Lit("quota")])))}}

Event(method, qs, body) == [httpMethod |-> method, queryStringParameters |-> qs, body |-> body]

\* Prompt and contents under every alias.
PromptBodies ==
  OddBodies \cup
  {JsonText(Obj([BlankBody EXCEPT !.userPrompt = up, !.prompt = pr, !.contents = c])) :
     up \in PromptStrings \cup {Undef, Num(1)},
     pr \in {Undef, EmptyStr, Str(<<" ", "a">>)},
     c \in ContentsValues}

PromptQueries ==
  {Null} \cup
  {Obj([BlankQs EXCEPT !.userPrompt = up, !.prompt = pr]) :
     up \in {Undef, EmptyStr, Str(<<"a", " ">>)},
     pr \in {Undef, Str(<<" ">>), Lit("a")}}

\* Bodies sent with a method that carries none.
StrayBodies ==
  {Null, Lit("{oops"), JsonText(Null),
   JsonText(Obj([BlankBody EXCEPT !.prompt = Lit("a")])),
   JsonText(Obj([BlankBody EXCEPT !.contents = Arr(<<CallerTurn>>)]))}

\* The system instruction under every alias.
InstructionValues ==
  InstrStrings \cup {Undef, Null, StructuredInstruction, OtherShapeInstruction, Num(0), Num(5)}

InstructionQueries ==
  {Obj([BlankQs EXCEPT !.prompt = Lit("a"), !.systemInstruction = q1,
                       !.system_instruction = q2, !.instruction = q3]) :
     q1 \in {Undef, EmptyStr, Lit("q")}, q2 \in {Undef, Lit("q")}, q3 \in {Undef, Str(<<"q", " ">>)}}

InstructionBodies ==
  {JsonText(Obj([BlankBody EXCEPT !.prompt = Str(<<" ", "a">>), !.contents = c,
                                  !.systemInstruction = b1,
                                  !.system_instruction = b2,
                                  !.instruction = b3])) :
     c \in {Undef, Arr(<<CallerTurn>>)},
     b1 \in InstructionValues,
     b2 \in {Undef, EmptyStr, Lit("s"), StructuredInstruction},
     b3 \in {Undef, Str(<<"s", " ">>)}}

\* Credentials, model and endpoint configuration.
CredentialEnvs ==
  {BlankEnv, KeyEnv,
   [BlankEnv EXCEPT !.GOOGLE_API_KEY = Lit("key-2")],
   [BlankEnv EXCEPT !.NETLIFY_AT_GATEWAY_KEY = Lit("key-3")],
   [BlankEnv EXCEPT !.GEMINI_API_KEY = EmptyStr, !.GOOGLE_API_KEY = Lit("key-2"),
                    !.NETLIFY_AT_GATEWAY_KEY = Lit("key-3")],
   [BlankEnv EXCEPT !.GEMINI_API_KEY = EmptyStr]}

ConfigEnvs ==
  {[e EXCEPT !.GEMINI_MODEL = em, !.GEMINI_BASE_URL = url] :
     e \in CredentialEnvs,
     em \in {Undef, EmptyStr, Lit("env-model")},
     url \in {Undef, EmptyStr, Lit("https://gateway.example/generate")}}

ConfigQueries ==
  {Obj([BlankQs EXCEPT !.prompt = Lit("a"), !.model = qm]) :
     qm \in {Undef, EmptyStr, Lit("query-model")}}

ConfigBodies ==
  {JsonText(Obj([BlankBody EXCEPT !.prompt = Lit("a"), !.model = bm,
                                  !.generationConfig = gc, !.safety_settings = ss])) :
     bm \in {Undef, Null, EmptyStr, Str(<<"b", "/", " ">>), Num(7)},
     gc \in {Undef, Obj([temperature |-> Num(1)])},
     ss \in {Undef, Arr(<<>>)}}

PlainBody == JsonText(Obj([BlankBody EXCEPT !.prompt = Lit("a")]))

\* ------------------------------------------------------- the state machine
VARIABLES
  revision,  \* which revision of the function is deployed
  event,     \* the inbound call descriptor
  env,       \* process.env
  upstream,  \* the provider's behaviour during this invocation
  pc,        \* "start", "awaitFetch", "awaitText" or "returned"
  request,   \* the outbound call, once issued
  fetched,   \* the status of the provider's response, once fetch resolved
  response,  \* what the handler returned
  calls      \* outbound calls issued so far

vars == <<revision, event, env, upstream, pc, request, fetched, response, calls>>

None == [none |-> TRUE]

Idle ==
  /\ pc = "start"
  /\ request = None
  /\ fetched = None
  /\ response = None
  /\ calls = 0

\* One invocation: an inbound call, an environment and a provider behaviour.
Init ==
  /\ Idle
  /\ revision \in {"part_003", "gemini-proxy.js"}
  /\ \/ \E qs \in PromptQueries, b \in PromptBodies, e \in {KeyEnv, BlankEnv} :
          /\ event = Event("POST", qs, b)
          /\ env = e
          /\ upstream = Provider("resolve", 200, "resolve", OneCandidateBody)
     \/ \E m \in {"GET", "PUT"}, qs \in PromptQueries, b \in StrayBodies, e \in {KeyEnv, BlankEnv} :
          /\ event = Event(m, qs, b)
          /\ env = e
          /\ upstream = Provider("resolve", 200, "resolve", OneCandidateBody)
     \/ \E m \in {"GET", "POST"}, qs \in InstructionQueries, b \in InstructionBodies :
          /\ event = Event(m, qs, b)
          /\ env = KeyEnv
          /\ upstream = Provider("resolve", 200, "resolve", OneCandidateBody)
     \/ \E m \in {"OPTIONS", "GET", "POST"}, qs \in ConfigQueries, b \in ConfigBodies, e \in ConfigEnvs :
          /\ event = Event(m, qs, b)
          /\ env = e
          /\ upstream = Provider("resolve", 200, "resolve", OneCandidateBody)
     \/ \E p \in AllProviders :
          /\ event = Event("POST", Null, PlainBody)
          /\ env = KeyEnv
          /\ upstream = p

\* The handler runs up to `await fetch(...)` and issues the outbound call.
CallUpstream ==
  /\ revision = "part_003"
  /\ pc = "start"
  /\ HandlerSync(event, env).kind = "fetch"
  /\ request' = HandlerSync(event, env).request
  /\ calls' = calls + 1
  /\ pc' = "awaitFetch"
  /\ UNCHANGED <<revision, event, env, upstream, fetched, response>>

\* The handler returns before any outbound call.
ReturnEarly ==
  /\ revision = "part_003"
  /\ pc = "start"
  /\ HandlerSync(event, env).kind = "return"
  /\ response' = HandlerSync(event, env).response
  /\ pc' = "returned"
  /\ UNCHANGED <<revision, event, env, upstream, request, fetched, calls>>

\* fetch resolves with the provider's status line.
FetchResolved ==
  /\ pc = "awaitFetch"
  /\ upstream.fetch = "resolve"
  /\ fetched' = [status |-> upstream.status, ok |-> ResponseOk(upstream.status)]
  /\ pc' = "awaitText"
  /\ UNCHANGED <<revision, event, env, upstream, request, response, calls>>

\* A rejected fetch retried once before the catch-all answers.
FetchRejectedRetrying ==
  /\ revision = "part_003"
  /\ pc = "awaitFetch"
  /\ upstream.fetch = "reject"
  /\ IF calls < 2
       THEN /\ calls' = calls + 1
            /\ pc' = "awaitFetch"
            /\ UNCHANGED response
       ELSE /\ response' = CatchAll("fetch failed")
            /\ pc' = "returned"
            /\ UNCHANGED calls
  /\ UNCHANGED <<revision, event, env, upstream, request, fetched>>

\* fetch rejects (transport failure): the catch-all answers.
FetchRejected ==
  /\ revision = "part_003"
  /\ pc = "awaitFetch"
  /\ upstream.fetch = "reject"
  /\ response' = CatchAll("fetch failed")
  /\ pc' = "returned"
  /\ UNCHANGED <<revision, event, env, upstream, request, fetched, calls>>

\* response.text() resolves and the handler builds its response.
TextResolved ==
  /\ revision = "part_003"
  /\ pc = "awaitText"
  /\ upstream.text = "resolve"
  /\ response' = HandlerResume(fetched.status, upstream.raw)
  /\ pc' = "returned"
  /\ UNCHANGED <<revision, event, env, upstream, request, fetched, calls>>

\* response.text() rejects (the body stream fails): the catch-all answers.
TextRejected ==
  /\ revision = "part_003"
  /\ pc = "awaitText"
  /\ upstream.text = "reject"
  /\ response' = CatchAll("terminated")
  /\ pc' = "returned"
  /\ UNCHANGED <<revision, event, env, upstream, request, fetched, calls>>

\* gemini-proxy.js runs up to `await fetch(...)` and issues the outbound call.
ProxyCallUpstream ==
  /\ revision = "gemini-proxy.js"
  /\ pc = "start"
  /\ ProxyHandlerSync(event, env).kind = "fetch"
  /\ request' = ProxyHandlerSync(event, env).request
  /\ calls' = calls + 1
  /\ pc' = "awaitFetch"
  /\ UNCHANGED <<revision, event, env, upstream, fetched, response>>

\* gemini-proxy.js returns before any outbound call.
ProxyReturnEarly ==
  /\ revision = "gemini-proxy.js"
  /\ pc = "start"
  /\ ProxyHandlerSync(event, env).kind = "return"
  /\ response' = ProxyHandlerSync(event, env).response
  /\ pc' = "returned"
  /\ UNCHANGED <<revision, event, env, upstream, request, fetched, calls>>

\* gemini-proxy.js: fetch rejects, its catch answers.
ProxyFetchRejected ==
  /\ revision = "gemini-proxy.js"
  /\ pc = "awaitFetch"
  /\ upstream.fetch = "reject"
  /\ response' = ProxyCatch("fetch failed")
  /\ pc' = "returned"
  /\ UNCHANGED <<revision, event, env, upstream, request, fetched, calls>>

\* gemini-proxy.js: fetchResponse.json() resolves and the handler builds its response.
ProxyJsonResolved ==
  /\ revision = "gemini-proxy.js"
  /\ pc = "awaitText"
  /\ upstream.text = "resolve"
  /\ IsJsonText(upstream.raw)
  /\ response' = ProxyHandlerResume(fetched.status, upstream.raw.j)
  /\ pc' = "returned"
  /\ UNCHANGED <<revision, event, env, upstream, request, fetched, calls>>

\* gemini-proxy.js: fetchResponse.json() rejects (the body stream fails, or the
\* body is no JSON), its catch answers.
ProxyJsonRejected ==
  /\ revision = "gemini-proxy.js"
  /\ pc = "awaitText"
  /\ upstream.text = "reject" \/ ~IsJsonText(upstream.raw)
  /\ response' = ProxyCatch("invalid json response body")
  /\ pc' = "returned"
  /\ UNCHANGED <<revision, event, env, upstream, request, fetched, calls>>

Next ==
  \/ CallUpstream
  \/ ReturnEarly
  \/ FetchResolved
  \/ FetchRejected
  \/ TextResolved
  \/ TextRejected
  \/ ProxyCallUpstream
  \/ ProxyReturnEarly
  \/ ProxyFetchRejected
  \/ ProxyJsonResolved
  \/ ProxyJsonRejected

Spec == Init /\ [][Next]_vars

\* ---------------------------------------------------------------- the claims
Canonical == revision = "part_003"
Returned == pc = "returned"
Issued == calls >= 1
NonPreflight == event.httpMethod # "OPTIONS"

\* The JSON value the inbound body text denotes, if it denotes one.
SentBody == IF IsJsonText(event.body) THEN event.body.j ELSE Undef
\* The body the handler works on, and its query parameters.
WorkingBody == ParseBody(event).value
WorkingQuery == Or(event.queryStringParameters, EmptyObject)

JsonBody(r) == IsJsonText(r.body) /\ r.body.j.t = "object"
Field(r, k) == Get(r.body.j, k)
Payload == request.body.j

NonBlank(v) == IsString(v) /\ ~IsJsonText(v) /\ Trim(v.s) # <<>>

\* Some accepted credential variable holds a non-empty value.
CredentialSet ==
  \E k \in {"GEMINI_API_KEY", "GOOGLE_API_KEY", "NETLIFY_AT_GATEWAY_KEY"} : Truthy(env[k])
ProxyCredentialSet ==
  \E k \in {"GEMINI_API_KEY", "NETLIFY_AT_GATEWAY_KEY"} : Truthy(env[k])

\* The inbound body is absent, or is text that parses as JSON.
BodyParses == IsNullish(event.body) \/ IsJsonText(event.body)

CarriesPrompt ==
  \E src \in {SentBody, event.queryStringParameters}, k \in {"userPrompt", "prompt"} :
    NonBlank(OptGet(src, k))

CarriesContents ==
  LET c == OptGet(SentBody, "contents") IN IsArray(c) /\ c.a # <<>>

ErrorResponse(r, status, message) ==
  /\ r.statusCode = status
  /\ JsonBody(r)
  /\ r.body.j = Obj([ok |-> Bool(FALSE), error |-> Lit(message)])

\* C1: in part_003, for a method other than OPTIONS and with a credential, a
\* request whose body parses as JSON and that carries neither a non-empty
\* `contents` sequence nor a prompt alias that is non-empty after trimming is
\* answered 400 {ok:false, error:"Missing userPrompt."} and no outbound call
\* is made.
C1_MissingPromptRejected ==
  (Canonical /\ NonPreflight /\ CredentialSet /\ BodyParses /\ ~CarriesPrompt /\ ~CarriesContents)
    => /\ ~Issued
       /\ Returned => ErrorResponse(response, 400, "Missing userPrompt.")

\* A candidate as the provider documents it: content.parts, each with a text.
WellFormedPart(p) == p.t = "object" /\ IsString(Get(p, "text"))
WellFormedCandidate(c) ==
  /\ c.t = "object"
  /\ IsArray(OptGet(Get(c, "content"), "parts"))
  /\ \A i \in 1..Len(Get(Get(c, "content"), "parts").a) :
       WellFormedPart(Get(Get(c, "content"), "parts").a[i])
WellFormedData(d) ==
  /\ d.t = "object"
  /\ IsArray(Get(d, "candidates"))
  /\ \A i \in 1..Len(Get(d, "candidates").a) : WellFormedCandidate(Get(d, "candidates").a[i])

CandidateText(c) ==
  LET parts == Get(Get(c, "content"), "parts").a IN
  Join([i \in 1..Len(parts) |-> Get(parts[i], "text").s], <<>>)

\* Every candidate's parts concatenated, the candidates joined by a blank line.
AllCandidatesText(d) ==
  LET cs == Get(d, "candidates").a IN
  Join([i \in 1..Len(cs) |-> CandidateText(cs[i])], <<"\n", "\n">>)

UpstreamData == IF IsJsonText(upstream.raw) THEN upstream.raw.j ELSE Obj([raw |-> upstream.raw])

SuccessfulExchange ==
  /\ Returned
  /\ fetched # None
  /\ fetched.ok
  /\ upstream.text = "resolve"

\* `text` is the string s, or null where the joined text is empty.
TextIs(r, s) == Field(r, "text") = Str(s) \/ (s = <<>> /\ Field(r, "text") = Null)

\* C2: on an upstream success, in part_003 and in gemini-proxy.js, `text` is
\* computed over all candidates in order: each candidate's parts[].text
\* concatenated without separator, the candidates joined with "\n\n".
C2_TextJoinsAllCandidates ==
  (SuccessfulExchange /\ WellFormedData(UpstreamData))
    => JsonBody(response) /\ TextIs(response, AllCandidatesText(UpstreamData))

\* The same, of gemini-proxy.js alone.
ProxyTextJoinsAllCandidates ==
  (~Canonical /\ SuccessfulExchange /\ WellFormedData(UpstreamData))
    => JsonBody(response) /\ Field(response, "text") = Str(AllCandidatesText(UpstreamData))

\* The same, of part_003 alone, for at most one candidate.
FirstCandidateTextOnly ==
  (Canonical /\ SuccessfulExchange /\ WellFormedData(UpstreamData)
     /\ Len(Get(UpstreamData, "candidates").a) <= 1)
    => JsonBody(response) /\ TextIs(response, AllCandidatesText(UpstreamData))

\* The raw system instruction the handler picked among the aliases.
PickedInstruction == ResolveSysRaw(WorkingBody, WorkingQuery)

\* The first prompt alias holding a non-empty string.
RECURSIVE FirstNonEmptyString(_)
FirstNonEmptyString(values) ==
  IF values = <<>> THEN EmptyStr
  ELSE IF IsString(Head(values)) /\ Head(values).s # <<>> THEN Head(values)
  ELSE FirstNonEmptyString(Tail(values))

PickedPrompt ==
  FirstNonEmptyString(<<Get(WorkingBody, "userPrompt"), Get(WorkingBody, "prompt"),
                        Get(WorkingQuery, "userPrompt"), Get(WorkingQuery, "prompt")>>)

TextTurn(text) == Obj([parts |-> Arr(<<Obj([text |-> Str(text)])>>)])

ContentsBuilt == ~Truthy(Get(WorkingBody, "contents"))

\* C3: in part_003 the system instruction is forwarded as the payload field
\* `system_instruction` and never merged into the contents: a string S that is
\* non-empty after trimming gives {parts:[{text: trim(S)}]}; an absent, empty
\* or whitespace-only value gives a payload without the key; an object is
\* forwarded unchanged; and the built content turn's text is the trimmed
\* prompt alone.
C3_InstructionForwardedSeparately ==
  (Canonical /\ Issued)
    => /\ NonBlank(PickedInstruction)
            => Get(Payload, "system_instruction") = TextTurn(Trim(PickedInstruction.s))
       /\ (IsNullish(PickedInstruction) \/ (IsString(PickedInstruction) /\ ~NonBlank(PickedInstruction)))
            => "system_instruction" \notin DOMAIN Payload.o
       /\ PickedInstruction.t = "object"
            => Get(Payload, "system_instruction") = PickedInstruction
       /\ ContentsBuilt
            => Get(Payload, "contents") = Arr(<<TextTurn(Trim(PickedPrompt.s))>>)

C3_Witness ==
  /\ Canonical
  /\ Issued
  /\ ContentsBuilt
  /\ PickedInstruction = Str(<<" ", "s">>)
  /\ Get(Payload, "system_instruction") = TextTurn(<<"s">>)
  /\ Get(Payload, "contents") = Arr(<<TextTurn(<<"a">>)>>)

FailedExchange ==
  /\ Returned
  /\ fetched # None
  /\ ~(fetched.status \in 200..299)
  /\ upstream.text = "resolve"

\* C4: in part_003, when the upstream call completes with a non-success
\* status S, the response's status code is S and its body is
\* {ok:false, error, status:S, data}, data being the parsed upstream body, or
\* {raw: text} when that body is no JSON.
C4_UpstreamStatusEchoed ==
  (Canonical /\ FailedExchange)
    => /\ response.statusCode = fetched.status
       /\ JsonBody(response)
       /\ response.body.j =
            Obj([ok |-> Bool(FALSE),
                 error |-> Lit("Gemini API request failed."),
                 status |-> Num(fetched.status),
                 data |-> UpstreamData])

C4_Witness ==
  /\ Canonical
  /\ FailedExchange
  /\ fetched.status = 404
  /\ ~IsJsonText(upstream.raw)
  /\ response.statusCode = 404
  /\ Field(response, "data") = Obj([raw |-> Lit("<html>")])

\* C5: for every non-preflight request, in part_003 and in gemini-proxy.js,
\* when none of the accepted credential variables is set the response is a
\* configuration failure (status 500, ok:false) whatever prompt, contents or
\* body is supplied, and no outbound call is made.
C5_MissingCredentialFails ==
  /\ (Canonical /\ NonPreflight /\ ~CredentialSet)
       => /\ ~Issued
          /\ Returned => response = MissingKeyResponse
  /\ (NonPreflight /\ ~(IF Canonical THEN CredentialSet ELSE ProxyCredentialSet))
       => /\ ~Issued
          /\ Returned => /\ response.statusCode = 500
                         /\ JsonBody(response)
                         /\ Field(response, "ok") = Bool(FALSE)

C5_Witness ==
  /\ Canonical
  /\ Returned
  /\ event.httpMethod = "POST"
  /\ ~CredentialSet
  /\ NonBlank(OptGet(SentBody, "prompt"))
  /\ response.statusCode = 500
  /\ Field(response, "ok") = Bool(FALSE)

BodyUnparseable == IsString(event.body) /\ ~IsJsonText(event.body)

\* C6 (as claimed): in part_003, a POST whose body is not parseable as JSON,
\* with a credential, is answered 400 with an error message other than the
\* missing-prompt one, and no outbound call is made, even when a valid prompt
\* comes in the query.
C6_MalformedBodyRejected ==
  (Canonical /\ event.httpMethod = "POST" /\ CredentialSet /\ BodyUnparseable)
    => /\ ~Issued
       /\ Returned => /\ response.statusCode = 400
                      /\ JsonBody(response)
                      /\ Field(response, "ok") = Bool(FALSE)
                      /\ IsString(Field(response, "error"))
                      /\ Field(response, "error") # Lit("Missing userPrompt.")

\* C6 (amended): the same of a POST whose body is a non-empty text that is
\* not parseable as JSON; the answer is 400 {ok:false, error:"Invalid JSON body."}.
C6_NonEmptyMalformedBodyRejected ==
  (Canonical /\ event.httpMethod = "POST" /\ CredentialSet /\ BodyUnparseable
     /\ event.body.s # <<>>)
    => /\ ~Issued
       /\ Returned => /\ ErrorResponse(response, 400, "Invalid JSON body.")
                      /\ Field(response, "error") # Lit("Missing userPrompt.")

C6_Witness ==
  /\ Canonical
  /\ Returned
  /\ event.httpMethod = "POST"
  /\ CredentialSet
  /\ event.body = Lit("{oops")
  /\ NonBlank(OptGet(event.queryStringParameters, "prompt"))
  /\ response.statusCode = 400

\* C7 (as claimed): in part_003, when no `contents` is supplied and the
\* prompt P is non-empty after trimming, the payload's `contents` is exactly
\* one turn with role `user` and exactly one text part, trim(P).
C7_SingleUserTurn ==
  (Canonical /\ Issued /\ ContentsBuilt /\ NonBlank(PickedPrompt))
    => Get(Payload, "contents") =
         Arr(<<Obj([role |-> Lit("user"),
                    parts |-> Arr(<<Obj([text |-> Str(Trim(PickedPrompt.s))])>>)])>>)

\* C7 (amended): in part_003, an outbound call for a request without
\* `contents` is made only for a prompt P that is non-empty after trimming,
\* and its payload's `contents` is exactly one turn that has no `role` key and
\* exactly one text part, trim(P).
C7_SingleTurnWithoutRole ==
  (Canonical /\ Issued /\ ContentsBuilt)
    => /\ NonBlank(PickedPrompt)
       /\ Get(Payload, "contents") = Arr(<<TextTurn(Trim(PickedPrompt.s))>>)
       /\ DOMAIN Get(Payload, "contents").a[1].o = {"parts"}

C7_Witness ==
  /\ Canonical
  /\ Issued
  /\ ContentsBuilt
  /\ PickedPrompt = Str(<<" ", "a">>)
  /\ Get(Payload, "contents") = Arr(<<TextTurn(<<"a">>)>>)

\* C8: every success response (ok:true) of part_003 has `result` equal to
\* `text` (the same string, or both null), and republishes the upstream
\* `candidates` at the top level and the upstream body under `data`.
C8_ResultMirrorsText ==
  (Canonical /\ Returned /\ JsonBody(response) /\ Field(response, "ok") = Bool(TRUE))
    => /\ SuccessfulExchange
       /\ {"text", "result", "data"} \subseteq DOMAIN response.body.j.o
       /\ Field(response, "text").t \in {"string", "null"}
       /\ Field(response, "result") = Field(response, "text")
       /\ Field(response, "candidates") = Get(UpstreamData, "candidates")
       /\ Field(response, "data") = UpstreamData

C8_Witness ==
  /\ Canonical
  /\ Returned
  /\ JsonBody(response)
  /\ Field(response, "ok") = Bool(TRUE)
  /\ Field(response, "text") = Str(<<"A", "B">>)
  /\ Field(response, "result") = Str(<<"A", "B">>)
  /\ IsArray(Field(response, "candidates"))

\* The same with a null text.
C8_NullWitness ==
  /\ Canonical
  /\ Returned
  /\ JsonBody(response)
  /\ Field(response, "ok") = Bool(TRUE)
  /\ Field(response, "text") = Null
  /\ Field(response, "result") = Null

\* C9: every response of part_003 to a non-preflight call, on every path
\* (a thrown exception, a rejected outbound call), has a JSON body with a
\* boolean `ok`, and with a string `error` whenever `ok` is false.
C9_AlwaysStructuredJson ==
  (Canonical /\ Returned /\ NonPreflight)
    => /\ JsonBody(response)
       /\ Field(response, "ok").t = "boolean"
       /\ Field(response, "ok") = Bool(FALSE) => IsString(Field(response, "error"))

C9_Witness ==
  /\ Canonical
  /\ Returned
  /\ Issued
  /\ upstream.fetch = "reject"
  /\ response.statusCode = 500
  /\ Field(response, "ok") = Bool(FALSE)
  /\ IsString(Field(response, "error"))

\* The first value of the chain that is given (truthy), else the default.
RECURSIVE FirstGiven(_, _)
FirstGiven(values, default) ==
  IF values = <<>> THEN default
  ELSE IF Truthy(Head(values)) THEN Head(values)
  ELSE FirstGiven(Tail(values), default)

ExpectedModel ==
  FirstGiven(<<Get(WorkingBody, "model"), Get(WorkingQuery, "model"), env.GEMINI_MODEL>>,
             Lit("gemini-2.5-flash"))

DefaultHost == <<"https://generativelanguage.googleapis.com">>

ModelPath == <<"/v1beta/models/">> \o encodeURIComponent(ExpectedModel) \o <<":generateContent">>

\* C10 (as claimed): the outbound call of part_003 targets
\* {baseUrl}/v1beta/models/{model}:generateContent, the model being the
\* request override, else the environment's, else the default, and baseUrl
\* the environment override, else the default host.
C10_EndpointCarriesModel ==
  (Canonical /\ Issued)
    => request.url =
         Str((IF Truthy(env.GEMINI_BASE_URL) THEN env.GEMINI_BASE_URL.s ELSE DefaultHost)
             \o ModelPath)

\* C10 (amended): the outbound call of part_003 targets GEMINI_BASE_URL as it
\* is when that variable is set (a full endpoint, without the model), and
\* otherwise the default host followed by
\* /v1beta/models/{encodeURIComponent(model)}:generateContent.
C10_EndpointOverrideIsFull ==
  (Canonical /\ Issued)
    => /\ request.method = "POST"
       /\ request.url =
            IF Truthy(env.GEMINI_BASE_URL) THEN env.GEMINI_BASE_URL
            ELSE Str(DefaultHost \o ModelPath)

C10_Witness ==
  /\ Canonical
  /\ Issued
  /\ ~Truthy(env.GEMINI_BASE_URL)
  /\ ~Truthy(Get(WorkingBody, "model"))
  /\ Truthy(env.GEMINI_MODEL)
  /\ request.url = Str(DefaultHost \o <<"/v1beta/models/", "query-model", ":generateContent">>)

\* The override case of C10.
C10_OverrideWitness ==
  /\ Canonical
  /\ Issued
  /\ Truthy(env.GEMINI_BASE_URL)
  /\ Truthy(Get(WorkingQuery, "model"))
  /\ request.url = Lit("https://gateway.example/generate")

\* The handler's own checks, in their order: not a preflight, a credential,
\* a body that parses (to something other than null), and a truthy `contents`
\* or a prompt that is non-empty after trimming.
ChecksPassed ==
  /\ NonPreflight
  /\ CredentialSet
  /\ ~(event.httpMethod = "POST" /\ BodyUnparseable /\ event.body.s # <<>>)
  /\ ~IsNullish(WorkingBody)
  /\ Truthy(Get(WorkingBody, "contents")) \/ NonBlank(PickedPrompt)

\* The responses of the stages before the outbound call.
PreflightAnswered == response.statusCode = 204
ConfigurationFailure == response = MissingKeyResponse
ValidationFailure ==
  \/ ErrorResponse(response, 400, "Invalid JSON body.")
  \/ ErrorResponse(response, 400, "Missing userPrompt.")

\* The provider answered with a failure, an unparseable body or not at all.
ExchangeWentWrong ==
  \/ upstream.fetch = "reject"
  \/ upstream.text = "reject"
  \/ ~ResponseOk(upstream.status)
  \/ ~IsJsonText(upstream.raw)

\* C11: in one invocation of part_003 the outbound call is issued at most
\* once, also after a non-success status, an unparseable body or a rejected
\* fetch; it is issued only once the preflight check, the credential check,
\* the body parsing and the prompt/contents validation have passed; and a
\* preflight call, a configuration failure and a validation failure are
\* answered with no outbound call.
C11_SingleCallAfterChecks ==
  Canonical
    => /\ calls \in {0, 1}
       /\ Issued = (pc # "start" /\ request # None)
       /\ Issued => ChecksPassed
       /\ (event.httpMethod = "OPTIONS" \/ ~CredentialSet) => ~Issued
       /\ Returned => /\ (PreflightAnswered \/ ConfigurationFailure \/ ValidationFailure) => calls = 0
                      /\ ~ChecksPassed => calls = 0
                      /\ (ChecksPassed /\ ExchangeWentWrong) => calls = 1

C11_Witness ==
  /\ Canonical
  /\ Returned
  /\ ChecksPassed
  /\ fetched # None
  /\ fetched.status = 503
  /\ ~IsJsonText(upstream.raw)
  /\ response.statusCode = 503
  /\ calls = 1

\* The early returns of C11, reached without a call.
C11_EarlyWitness ==
  /\ Canonical
  /\ Returned
  /\ ValidationFailure
  /\ CredentialSet
  /\ calls = 0

\* The provider's body carries no candidate the handler could read a text from.
NoUsableCandidates(d) ==
  ~(/\ d.t = "object"
    /\ IsArray(Get(d, "candidates"))
    /\ \E i \in 1..Len(Get(d, "candidates").a) :
         LET c == Get(d, "candidates").a[i] IN
         c.t = "object" /\ IsArray(OptGet(Get(c, "content"), "parts")))

\* What the provider's body text denotes: its JSON value, or nothing.
UpstreamJson == IF IsJsonText(upstream.raw) THEN upstream.raw.j ELSE Undef

SuccessWithNullText(r) ==
  /\ r.statusCode = 200
  /\ JsonBody(r)
  /\ Field(r, "ok") = Bool(TRUE)
  /\ Field(r, "text") = Null

\* C12: in part_003, when the upstream status is a success and the body has
\* no usable `candidates` (key absent, not a sequence, empty, elements without
\* content/parts, a body that is no JSON, or a JSON body that is no object,
\* such as null), the response is a success (200, ok:true) with `text` null,
\* never an error response.
C12_NoCandidatesStillSuccess ==
  (Canonical /\ SuccessfulExchange /\ NoUsableCandidates(UpstreamJson))
    => SuccessWithNullText(response)

\* The same, of every such body but the JSON literal null.
NoCandidatesSuccessUnlessNull ==
  (Canonical /\ SuccessfulExchange /\ NoUsableCandidates(UpstreamJson) /\ UpstreamJson # Null)
    => SuccessWithNullText(response)

\* The JSON literal null as a success body: the catch-all answers 500.
NullBodyServerError ==
  (Canonical /\ SuccessfulExchange /\ UpstreamJson = Null)
    => response = CatchAll("TypeError")

\* The first value of an alias list that is given and is not the empty string.
RECURSIVE FirstNonEmpty(_)
FirstNonEmpty(values) ==
  IF values = <<>> THEN Null
  ELSE IF ~IsNullish(Head(values)) /\ Head(values) # EmptyStr THEN Head(values)
  ELSE FirstNonEmpty(Tail(values))

InstructionAliases ==
  <<Get(WorkingBody, "systemInstruction"), Get(WorkingBody, "system_instruction"),
    Get(WorkingBody, "instruction"), Get(WorkingQuery, "systemInstruction"),
    Get(WorkingQuery, "system_instruction"), Get(WorkingQuery, "instruction")>>

\* C13: in part_003 the prompt and the system instruction are both resolved
\* from their ordered alias lists by "first non-empty value wins": an alias
\* holding the empty string never shadows a later alias holding a non-empty
\* value.
C13_FirstNonEmptyAliasWins ==
  (Canonical /\ Issued)
    => /\ NonBlank(FirstNonEmpty(InstructionAliases))
            => Get(Payload, "system_instruction") = TextTurn(Trim(FirstNonEmpty(InstructionAliases).s))
       /\ ContentsBuilt
            => Get(Payload, "contents") = Arr(<<TextTurn(Trim(PickedPrompt.s))>>)

\* The prompt half of C13.
PromptFirstNonEmptyWins ==
  (Canonical /\ Issued /\ ContentsBuilt)
    => Get(Payload, "contents") = Arr(<<TextTurn(Trim(PickedPrompt.s))>>)

\* The instruction half of C13, where no alias before the winner is "".
InstructionFirstGivenWins ==
  (Canonical /\ Issued /\ NonBlank(FirstNonEmpty(InstructionAliases))
     /\ PickedInstruction # EmptyStr)
    => Get(Payload, "system_instruction") = TextTurn(Trim(FirstNonEmpty(InstructionAliases).s))

\* An empty first alias before a non-empty one: the payload has no instruction.
EmptyAliasShadows ==
  /\ Canonical
  /\ Issued
  /\ Get(WorkingBody, "systemInstruction") = EmptyStr
  /\ Get(WorkingBody, "system_instruction") = Lit("s")
  /\ "system_instruction" \notin DOMAIN Payload.o

\* An empty first prompt alias before a non-empty one: the later one is sent.
EmptyPromptAliasSkipped ==
  /\ Canonical
  /\ Issued
  /\ Get(WorkingBody, "userPrompt") = EmptyStr
  /\ Get(WorkingBody, "prompt") = Str(<<" ", "a">>)
  /\ Get(Payload, "contents") = Arr(<<TextTurn(<<"a">>)>>)

====
